---- MODULE Spec2Model ----
(***************************************************************************)
(* Task orchestration engine of AgentCodeV3 (src/backend): the Task Record *)
(* (state.py: AgentState, PlanStep), the step scheduler                    *)
(* (AgentState.get_next_pending_step), the executor                        *)
(* (developer.py: AdvancedDeveloper.execute_atomic_step), the LangGraph    *)
(* workflow (agent_graph.py: AgentGraph), the progress queue written by    *)
(* execute_workflow and the task registry of server.py (active_tasks).     *)
(*                                                                         *)
(* One behaviour follows one task.  A task is started either by            *)
(* AgentGraph.execute_workflow (it owns a progress queue and is not in the *)
(* registry) or by server.stream_agent_execution.generate_stream (it is    *)
(* registered in active_tasks, can be cancelled, and has no queue).        *)
(* Every value of pc is a suspension point (an await); every action is the *)
(* synchronous code between two suspension points.  The Task Record is one *)
(* object, mutated in place by the nodes and by cancel_task.               *)
(*                                                                         *)
(* Further specifications run one part on all of its inputs: SchedSpec the *)
(* scheduler, TriageSpec the classifier's answers, PlannerSpec             *)
(* planner.plan_atomic_step, RegistrySpec the registry calls of server.py, *)
(* IsolationSpec two execute_workflow calls at a time.                     *)
(***************************************************************************)
EXTENDS Integers, Sequences, FiniteSets, TLC

VARIABLES
    state,                  \* the AgentState of the task (state.py:53-85)
    pc,                     \* suspension point of the workflow coroutine
    entry,                  \* "none" | "workflow" | "stream": who started the task
    current_stream_queue,   \* AgentGraph.current_stream_queue: the task whose queue it is, 0 for None
    stream_queue,           \* every snapshot put on the task's asyncio.Queue, in order
    active_tasks,           \* server.active_tasks, as the set of registered keys
    dev,                    \* locals of the latest execute_atomic_step call: next_step, i,
                            \* response_text, action (i is not kept at its return)
    dev_iters,              \* number of times the developer node has been entered
    cancels,                \* number of cancel_task requests served
    sched_ret,              \* results of successive get_next_pending_step calls (scheduler harness)
    triage_response,        \* the classifier's answer that assess_request parsed
    responses,              \* outcomes of the calls of cancel_task and cleanup_task, in order
    task_records,           \* the AgentState behind each key of server.active_tasks
    wf_pc,                  \* position of each of two concurrent execute_workflow calls
    queues                  \* the stream_queue argument of each of those calls

vars == <<state, pc, entry, current_stream_queue, stream_queue, active_tasks,
          dev, dev_iters, cancels, sched_ret, triage_response,
          responses, task_records, wf_pc, queues>>

\* the variables of the registry calls and of the concurrent workflows
server_vars == <<responses, task_records>>

peer_vars == <<wf_pc, queues>>

----------------------------------------------------------------------------
(* Bounds of the model *)

MaxSteps == 2
MaxDeps == 1
MaxIter == 11
MaxCancels == 1
SchedMaxSteps == 2
MaxProbes == 2
PlannerMaxSteps == 2
MaxCalls == 3
MaxNodes == 2

(* Program constants *)

max_loops == 10
max_retries == 3
LogTail == 20
max_plan_steps == 20
recent_steps == 3

----------------------------------------------------------------------------
(* Task Record *)

StepStatus == {"pending", "in_progress", "completed", "failed", "skipped"}

NoValue == "None"

\* the tasks of a behaviour with more than one task
TaskIds == {1, 2}

\* no answer of the classifier has been parsed yet
NoResponse == [raises |-> FALSE, route_field |-> "", complexity_field |-> ""]

AgentState ==
    [task_id |-> 0,
     route |-> NoValue,
     complexity |-> 0,
     plan_steps |-> <<>>,
     planning_complete |-> FALSE,
     execution_log |-> <<>>,
     feedback_messages |-> 0,
     working_memory |-> [triage_assessment |-> [set |-> FALSE, route |-> "", complexity |-> 0],
                         search_results |-> {}],
     current_code |-> "input",
     loop_count |-> 0,
     max_loops |-> max_loops,
     task_complete |-> FALSE,
     task_failed |-> FALSE,
     failure_reason |-> "",
     final_code |-> NoValue,
     final_explanation |-> NoValue]

log_message(st, message) ==
    [st EXCEPT !.execution_log = Append(@, message)]

start_task(st, id) ==
    log_message([st EXCEPT !.task_id = id], "Task started")

\* a fail_task that also marks the task as finished
fail_task_marks_complete(st, reason) ==
    log_message([st EXCEPT !.task_failed = TRUE, !.task_complete = TRUE,
                           !.failure_reason = reason],
                "Task failed")

fail_task(st, reason) ==
    log_message([st EXCEPT !.task_failed = TRUE, !.failure_reason = reason],
                "Task failed")

\* working_memory["search_results_<step id>"] = results
update_working_memory(st, step_id) ==
    [st EXCEPT !.working_memory.search_results = @ \cup {step_id}]

----------------------------------------------------------------------------
(* Step scheduler *)

Min(S) == CHOOSE x \in S : \A y \in S : x <= y

\* index of the first step with this id, 0 for None
get_step_by_id(steps, step_id) ==
    LET hits == {i \in 1..Len(steps) : steps[i].id = step_id}
    IN  IF hits = {} THEN 0 ELSE Min(hits)

\* all(get_step_by_id(dep).status == COMPLETED for dep in deps), evaluated
\* lazily in list order: "raise" is the AttributeError of None.status
RECURSIVE all_deps_completed(_, _)
all_deps_completed(steps, deps) ==
    IF deps = <<>> THEN "true"
    ELSE LET j == get_step_by_id(steps, Head(deps))
         IN  IF j = 0 THEN "raise"
             ELSE IF steps[j].status # "completed" THEN "false"
             ELSE all_deps_completed(steps, Tail(deps))

RECURSIVE scan_pending(_, _)
scan_pending(steps, i) ==
    IF i > Len(steps) THEN 0
    ELSE IF steps[i].status = "pending"
         THEN LET r == all_deps_completed(steps, steps[i].dependencies)
              IN  IF r = "raise" THEN -1
                  ELSE IF r = "true" THEN i
                  ELSE scan_pending(steps, i + 1)
         ELSE scan_pending(steps, i + 1)

RECURSIVE scan_pending_nodeps(_, _)
scan_pending_nodeps(steps, i) ==
    IF i > Len(steps) THEN 0
    ELSE IF steps[i].status = "pending" THEN i
    ELSE scan_pending_nodeps(steps, i + 1)

\* a scheduler that forgets the dependency check
get_next_pending_step_nodeps(steps) == scan_pending_nodeps(steps, 1)

\* index of the returned step; 0 when it returns None; -1 when it raises
get_next_pending_step(steps) == scan_pending(steps, 1)

----------------------------------------------------------------------------
(* Snapshots *)

LastN(s, n) ==
    IF Len(s) <= n THEN s ELSE SubSeq(s, Len(s) - n + 1, Len(s))

\* get_progress_summary calls the scheduler when the plan is not empty
get_progress_summary_raises(st) ==
    st.plan_steps # <<>> /\ get_next_pending_step(st.plan_steps) = -1

\* a to_dict that reports each step as it was planned, not as it stands
to_dict_as_planned(st) ==
    [task_id |-> st.task_id,
     route |-> st.route,
     complexity |-> st.complexity,
     plan_steps |-> [i \in 1..Len(st.plan_steps) |->
                        [id |-> st.plan_steps[i].id,
                         action_type |-> st.plan_steps[i].action_type,
                         status |-> "pending"]],
     execution_log |-> LastN(st.execution_log, LogTail),
     completed |-> Cardinality({i \in 1..Len(st.plan_steps) :
                                   st.plan_steps[i].status = "completed"}),
     task_complete |-> st.task_complete,
     task_failed |-> st.task_failed,
     failure_reason |-> st.failure_reason,
     final_code |-> st.final_code,
     final_explanation |-> st.final_explanation]

to_dict(st) ==
    [task_id |-> st.task_id,
     route |-> st.route,
     complexity |-> st.complexity,
     plan_steps |-> [i \in 1..Len(st.plan_steps) |->
                        [id |-> st.plan_steps[i].id,
                         action_type |-> st.plan_steps[i].action_type,
                         status |-> st.plan_steps[i].status]],
     execution_log |-> LastN(st.execution_log, LogTail),
     completed |-> Cardinality({i \in 1..Len(st.plan_steps) :
                                   st.plan_steps[i].status = "completed"}),
     task_complete |-> st.task_complete,
     task_failed |-> st.task_failed,
     failure_reason |-> st.failure_reason,
     final_code |-> st.final_code,
     final_explanation |-> st.final_explanation]

\* _stream_state_update: put a snapshot if a queue is set; an exception of
\* to_dict is logged and swallowed
stream_state_update(q, st) ==
    IF current_stream_queue = 1 /\ ~get_progress_summary_raises(st)
    THEN Append(q, to_dict(st))
    ELSE q

----------------------------------------------------------------------------
(* execute_workflow and generate_stream: the two ways a task is started *)

Init ==
    /\ state = AgentState
    /\ pc = "idle"
    /\ entry = "none"
    /\ current_stream_queue = 0
    /\ stream_queue = <<>>
    /\ active_tasks = {}
    /\ dev = [next_step |-> 0, i |-> 0, response_text |-> "", action |-> ""]
    /\ dev_iters = 0
    /\ cancels = 0
    /\ sched_ret = <<>>
    /\ triage_response = NoResponse
    /\ responses = <<>>
    /\ task_records = [id \in TaskIds |-> AgentState]
    /\ wf_pc = [id \in TaskIds |-> [at |-> "idle", n |-> 0]]
    /\ queues = [id \in TaskIds |-> <<>>]

\* the error_state of execute_workflow's except branch: a fresh AgentState
\* with a task id of its own
error_state ==
    log_message([start_task(AgentState, 2) EXCEPT !.task_failed = TRUE,
                                                  !.failure_reason = "exception"],
                "Critical error")

\* except branch and finally of execute_workflow, after the queue holds q
workflow_except(q) ==
    /\ stream_queue' = Append(q, to_dict(error_state))
    /\ current_stream_queue' = 0
    /\ pc' = "done"

\* the body of the `async for event` loop for the event of one finished
\* node, then the graph's edge to `next`
emit_event(st, q, next) ==
    IF entry = "workflow"
    THEN IF get_progress_summary_raises(st)
         THEN workflow_except(q)
         ELSE /\ stream_queue' = Append(q, to_dict(st))
              /\ pc' = next
              /\ UNCHANGED current_stream_queue
    ELSE /\ stream_queue' = q
         /\ pc' = next
         /\ UNCHANGED current_stream_queue

ExecuteWorkflowStart ==
    /\ pc = "idle"
    /\ state' = start_task(AgentState, 1)
    /\ entry' = "workflow"
    /\ current_stream_queue' = 1
    /\ stream_queue' = Append(stream_queue, to_dict(state'))
    /\ pc' = "triage"
    /\ UNCHANGED <<active_tasks, dev, dev_iters, cancels, sched_ret,
                   triage_response, server_vars, peer_vars>>

GenerateStreamStart ==
    /\ pc = "idle"
    /\ state' = start_task(AgentState, 1)
    /\ entry' = "stream"
    /\ active_tasks' = active_tasks \cup {1}
    /\ pc' = "triage"
    /\ UNCHANGED <<current_stream_queue, stream_queue, dev, dev_iters, cancels, sched_ret,
                   triage_response, server_vars, peer_vars>>

\* any exception leaving self.graph.astream (a node, the checkpointer, the
\* graph's recursion limit)
GraphPcs ==
    {"triage", "triage_llm", "simple_inquiry", "inquiry_llm", "planner",
     "plan_task", "developer", "dev_llm", "dev_tool"}

AstreamRaises ==
    /\ pc \in GraphPcs
    /\ IF entry = "workflow"
       THEN workflow_except(stream_queue)
       ELSE /\ pc' = "done"
            /\ UNCHANGED <<stream_queue, current_stream_queue>>
    /\ UNCHANGED <<state, entry, active_tasks, dev, dev_iters, cancels, sched_ret,
                   triage_response, server_vars, peer_vars>>

\* lines 163-171 and the finally of execute_workflow; lines 252-272 of
\* generate_stream
Finalize ==
    /\ pc = "finalize"
    /\ IF entry = "workflow"
       THEN IF get_progress_summary_raises(state)
            THEN workflow_except(stream_queue)
            ELSE /\ stream_queue' = Append(stream_queue, to_dict(state))
                 /\ current_stream_queue' = 0
                 /\ pc' = "done"
       ELSE /\ pc' = "done"
            /\ UNCHANGED <<stream_queue, current_stream_queue>>
    /\ UNCHANGED <<state, entry, active_tasks, dev, dev_iters, cancels, sched_ret,
                   triage_response, server_vars, peer_vars>>

\* DELETE /agent/tasks/{task_id}
cancel_task ==
    /\ 1 \in active_tasks
    /\ cancels < MaxCancels
    /\ cancels' = cancels + 1
    /\ state' = fail_task(state, "Task cancelled by user")
    /\ UNCHANGED <<pc, entry, current_stream_queue, stream_queue, active_tasks,
                   dev, dev_iters, sched_ret,
                   triage_response, server_vars, peer_vars>>

----------------------------------------------------------------------------
(* Triage and simple inquiry *)

\* the five routes of the triage prompt
Routes ==
    {"simple_inquiry", "code_generation", "simple_modification",
     "complex_modification", "research_and_implement"}

\* The classifier's answer as assess_request sees it: the call (or
\* response.text) raises, or the text has after "ROUTE:" the rest of that
\* line, stripped, and after "COMPLEXITY:" the rest of the text, stripped.
\* NoValue: the marker is not in the text.
RouteFields == {NoValue} \cup Routes \cup {"banana", ""}

ComplexityFields == {NoValue, "1", "3", "5", "42", "high", "7 (moderate)"}

TriageResponses ==
    {[raises |-> TRUE, route_field |-> NoValue, complexity_field |-> NoValue]}
    \cup [raises : {FALSE}, route_field : RouteFields,
          complexity_field : ComplexityFields]

\* int(text): the value of a decimal literal, -1 for ValueError
int(text) ==
    CASE text = "1" -> 1
      [] text = "3" -> 3
      [] text = "5" -> 5
      [] text = "42" -> 42
      [] OTHER -> -1

\* assess_request: the defaults, the two fields when their marker is in the
\* text, and the except branch for the call or int() raising
assess_request(r) ==
    LET except == [set |-> TRUE, route |-> "complex_modification", complexity |-> 8]
        route == IF r.route_field # NoValue THEN r.route_field
                 ELSE "complex_modification"
    IN  IF r.raises THEN except
        ELSE IF r.complexity_field = NoValue
             THEN [set |-> TRUE, route |-> route, complexity |-> 5]
             ELSE IF int(r.complexity_field) = -1 THEN except
                  ELSE [set |-> TRUE, route |-> route,
                        complexity |-> int(r.complexity_field)]

\* the answers the workflow is run with: one per kind of assessment
WorkflowResponses ==
    {[raises |-> TRUE, route_field |-> NoValue, complexity_field |-> NoValue],
     [raises |-> FALSE, route_field |-> NoValue, complexity_field |-> NoValue],
     [raises |-> FALSE, route_field |-> "simple_inquiry", complexity_field |-> "3"],
     [raises |-> FALSE, route_field |-> "banana", complexity_field |-> "3"]}

\* a conditional edge that sends only the listed modification routes to
\* the planner
route_after_triage_listed(st) ==
    LET a == st.working_memory.triage_assessment
        route == IF a.set THEN a.route ELSE "planner"
    IN  IF route \in {"planner", "code_generation", "simple_modification",
                      "complex_modification", "research_and_implement"}
        THEN "planner"
        ELSE "simple_inquiry"

route_after_triage(st) ==
    LET a == st.working_memory.triage_assessment
        route == IF a.set THEN a.route ELSE "planner"
    IN  IF route = "simple_inquiry" THEN "simple_inquiry" ELSE "planner"

TriageEnter ==
    /\ pc = "triage"
    /\ state' = log_message(state, "Triage started.")
    /\ stream_queue' = stream_state_update(stream_queue, state')
    /\ pc' = "triage_llm"
    /\ UNCHANGED <<entry, current_stream_queue, active_tasks, dev, dev_iters,
                   cancels, sched_ret,
                   triage_response, server_vars, peer_vars>>

\* triage_node from the classifier's answer r to the node's end, the node's
\* event and the conditional edge
triage_node_return(r) ==
    /\ triage_response' = r
    /\ state' = log_message(
           [state EXCEPT !.working_memory.triage_assessment = assess_request(r)],
           "Triage complete")
    /\ emit_event(state', stream_state_update(stream_queue, state'),
                  route_after_triage(state'))
    /\ UNCHANGED <<entry, active_tasks, dev, dev_iters, cancels, sched_ret,
                   server_vars, peer_vars>>

TriageExit ==
    /\ pc = "triage_llm"
    /\ \E r \in WorkflowResponses : triage_node_return(r)

SimpleInquiryEnter ==
    /\ pc = "simple_inquiry"
    /\ state' = log_message(state, "Handling simple inquiry.")
    /\ stream_queue' = stream_state_update(stream_queue, state')
    /\ pc' = "inquiry_llm"
    /\ UNCHANGED <<entry, current_stream_queue, active_tasks, dev, dev_iters,
                   cancels, sched_ret,
                   triage_response, server_vars, peer_vars>>

\* answer_simple_inquiry returns the answer (or an apology): the node drops it
SimpleInquiryExit ==
    /\ pc = "inquiry_llm"
    /\ state' = log_message(state, "Simple inquiry answered.")
    /\ emit_event(state', stream_state_update(stream_queue, state'), "finalize")
    /\ UNCHANGED <<entry, active_tasks, dev, dev_iters, cancels, sched_ret,
                   triage_response, server_vars, peer_vars>>

----------------------------------------------------------------------------
(* Planner *)

RECURSIVE SeqsUpTo(_, _)
SeqsUpTo(S, n) ==
    IF n = 0 THEN {<<>>}
    ELSE LET shorter == SeqsUpTo(S, n - 1)
         IN  shorter \cup {Append(q, x) : q \in shorter, x \in S}

\* structurally valid plans: the last step is a finish step and every
\* dependency names an earlier step
ValidPlans ==
    UNION {
      {p \in [1..n -> [id : 1..n, description : {"step"},
                       action_type : {"write", "finish"},
                       dependencies : SeqsUpTo(1..n, MaxDeps),
                       status : {"pending"}]] :
          /\ \A i \in 1..n :
                /\ p[i].id = i
                /\ p[i].action_type = (IF i = n THEN "finish" ELSE "write")
                /\ \A k \in 1..Len(p[i].dependencies) : p[i].dependencies[k] < i}
      : n \in 1..MaxSteps}

PlannerEnter ==
    /\ pc = "planner"
    /\ state' = log_message(state, "Planning started.")
    /\ stream_queue' = stream_state_update(stream_queue, state')
    /\ pc' = "plan_task"
    /\ UNCHANGED <<entry, current_stream_queue, active_tasks, dev, dev_iters,
                   cancels, sched_ret,
                   triage_response, server_vars, peer_vars>>

\* plan_task: a structurally valid plan is stored; anything else is rejected
\* in full and fails the task
plan_task(st, outcome) ==
    IF outcome.ok
    THEN [st EXCEPT !.plan_steps = outcome.plan, !.planning_complete = TRUE]
    ELSE fail_task(st, "planner failed to produce a valid plan")

PlannerExit ==
    /\ pc = "plan_task"
    /\ \E outcome \in {[ok |-> TRUE, plan |-> p] : p \in ValidPlans}
                      \cup {[ok |-> FALSE, plan |-> <<>>]} :
          /\ state' = log_message(plan_task(state, outcome), "Planning completed.")
          /\ emit_event(state', stream_state_update(stream_queue, state'), "developer")
    /\ UNCHANGED <<entry, active_tasks, dev, dev_iters, cancels, sched_ret,
                   triage_response, server_vars, peer_vars>>

----------------------------------------------------------------------------
(* Developer: execute_atomic_step inside developer_node *)

NoDev == [next_step |-> 0, i |-> 0, response_text |-> "", action |-> ""]

\* the locals a call of execute_atomic_step leaves behind: the step it took,
\* the response_text the retry loop ended with and the action parsed from it
dev_at_return(k, response_text, action) ==
    [NoDev EXCEPT !.next_step = k, !.response_text = response_text,
                  !.action = action]

decide_after_developer(st) ==
    IF st.task_complete \/ st.task_failed THEN "finalize" ELSE "developer"

\* developer_node after execute_next_step has returned: the second
\* _stream_state_update, the node's event, the conditional edge
developer_node_return(st, q) ==
    emit_event(st, stream_state_update(q, st), decide_after_developer(st))

\* an except branch that fails the task and leaves the step as it was
execute_except_keeps_step(st, k) ==
    log_message([st EXCEPT !.task_failed = TRUE], "Step execution failed")

\* an except branch that puts the step back for another try
execute_except_requeues(st, k) ==
    log_message(
        [st EXCEPT !.plan_steps =
                       IF k = 0 THEN @ ELSE [@ EXCEPT ![k].status = "pending"],
                   !.task_failed = TRUE],
        "Step execution failed")

\* the except branch of execute_atomic_step; k is next_step (0: not bound)
execute_except(st, k) ==
    log_message(
        [st EXCEPT !.plan_steps =
                       IF k = 0 THEN @ ELSE [@ EXCEPT ![k].status = "failed"],
                   !.task_failed = TRUE],
        "Step execution failed")

\* an executor that logs the result and leaves the step's status alone
complete_step_keeps_status(st, k, success, new_code) ==
    log_message(
        [st EXCEPT !.current_code = IF new_code THEN "written" ELSE @],
        "Step completed with status")

\* lines 73-83: the status from the action's result, the log entry, new_code
complete_step(st, k, success, new_code) ==
    log_message(
        [st EXCEPT !.plan_steps[k].status =
                       IF success THEN "completed" ELSE "failed",
                   !.current_code = IF new_code THEN "written" ELSE @],
        "Step completed with status")

\* the scheduler finds no step (or raises): nothing is executed
DeveloperIdle ==
    /\ pc = "developer"
    /\ dev_iters < MaxIter
    /\ get_next_pending_step(state.plan_steps) <= 0
    /\ dev_iters' = dev_iters + 1
    /\ state' = IF get_next_pending_step(state.plan_steps) = 0
                THEN log_message(state, "No more pending steps.")
                ELSE execute_except(state, 0)
    /\ dev' = NoDev
    /\ developer_node_return(state', stream_state_update(stream_queue, state))
    /\ UNCHANGED <<entry, active_tasks, cancels, sched_ret, triage_response, server_vars, peer_vars>>

\* the scheduler returns a step: it is started and the model is called
DeveloperStart ==
    /\ pc = "developer"
    /\ dev_iters < MaxIter
    /\ get_next_pending_step(state.plan_steps) >= 1
    /\ dev_iters' = dev_iters + 1
    /\ LET k == get_next_pending_step(state.plan_steps)
       IN  /\ state' = [log_message(state, "Executing step")
                           EXCEPT !.plan_steps[k].status = "in_progress"]
           /\ dev' = [NoDev EXCEPT !.next_step = k]
    /\ stream_queue' = stream_state_update(stream_queue, state)
    /\ pc' = "dev_llm"
    /\ UNCHANGED <<entry, current_stream_queue, active_tasks, cancels, sched_ret,
                   triage_response, server_vars, peer_vars>>

Actions ==
    {"WRITE_CODE", "REFACTOR_CODE", "SEARCH_INTERNAL", "SEARCH_EXTERNAL",
     "ANALYZE_CODE", "NO_ACTION", "DEPLOY"}

\* the actions _execute_action has a branch for
RecognizedActions ==
    {"WRITE_CODE", "REFACTOR_CODE", "SEARCH_INTERNAL", "SEARCH_EXTERNAL",
     "ANALYZE_CODE", "NO_ACTION"}

AwaitingActions ==
    {"WRITE_CODE", "REFACTOR_CODE", "SEARCH_INTERNAL", "SEARCH_EXTERNAL"}

\* _execute_action for the actions that await nothing
execute_action_now(st, action) ==
    IF action = "ANALYZE_CODE"
    THEN [st EXCEPT !.feedback_messages = @ + 1]
    ELSE st

\* after the retry loop: raise on an empty response_text, else parse the
\* action and dispatch it
after_retry_loop(response_text) ==
    IF response_text = ""
    THEN /\ state' = execute_except(state, dev.next_step)
         /\ dev' = dev_at_return(dev.next_step, "", "")
         /\ developer_node_return(state', stream_queue)
    ELSE \E action \in Actions :
            IF action \in AwaitingActions
            THEN /\ dev' = [dev EXCEPT !.response_text = response_text,
                                       !.action = action]
                 /\ pc' = "dev_tool"
                 /\ UNCHANGED <<state, stream_queue, current_stream_queue>>
            ELSE /\ state' = complete_step(execute_action_now(state, action),
                                           dev.next_step, TRUE, FALSE)
                 /\ dev' = dev_at_return(dev.next_step, response_text, action)
                 /\ developer_node_return(state', stream_queue)

\* one pass of `for i in range(self.max_retries)`: the response has both
\* markers (break), lacks a marker, or the call raises (sleep 2 ** i)
LLMAttempt ==
    /\ pc = "dev_llm"
    /\ \E outcome \in {"valid", "invalid", "raise"} :
          LET text == IF outcome = "raise" THEN dev.response_text ELSE outcome
          IN  IF outcome = "valid" \/ dev.i + 1 = max_retries
              THEN after_retry_loop(text)
              ELSE /\ dev' = [dev EXCEPT !.i = @ + 1, !.response_text = text]
                   /\ UNCHANGED <<state, pc, stream_queue, current_stream_queue>>
    /\ UNCHANGED <<entry, active_tasks, dev_iters, cancels, sched_ret,
                   triage_response, server_vars, peer_vars>>

\* _execute_action once the awaited tool (internal_write, search_internal,
\* search_external) has answered: True, False, or an exception
ToolReturn ==
    /\ pc = "dev_tool"
    /\ \E outcome \in {"ok", "false", "raise"} :
          LET k == dev.next_step
              write == dev.action \in {"WRITE_CODE", "REFACTOR_CODE"}
              success == outcome = "ok" \/ (outcome = "false" /\ ~write)
              st1 == IF success /\ ~write
                     THEN update_working_memory(state, state.plan_steps[k].id)
                     ELSE state
          IN  /\ state' = complete_step(st1, k, success, success /\ write)
              /\ developer_node_return(state', stream_queue)
    /\ dev' = dev_at_return(dev.next_step, dev.response_text, dev.action)
    /\ UNCHANGED <<entry, active_tasks, dev_iters, cancels, sched_ret,
                   triage_response, server_vars, peer_vars>>

----------------------------------------------------------------------------
(* The workflow *)

Next ==
    \/ ExecuteWorkflowStart
    \/ GenerateStreamStart
    \/ TriageEnter
    \/ TriageExit
    \/ SimpleInquiryEnter
    \/ SimpleInquiryExit
    \/ PlannerEnter
    \/ PlannerExit
    \/ DeveloperIdle
    \/ DeveloperStart
    \/ LLMAttempt
    \/ ToolReturn
    \/ Finalize
    \/ AstreamRaises
    \/ cancel_task

Spec == Init /\ [][Next]_vars

----------------------------------------------------------------------------
(* Triage on every answer of the classifier *)

TriageAssess ==
    /\ pc = "triage_llm"
    /\ \E r \in TriageResponses : triage_node_return(r)

TriageNext ==
    \/ ExecuteWorkflowStart
    \/ GenerateStreamStart
    \/ TriageEnter
    \/ TriageAssess

TriageSpec == Init /\ [][TriageNext]_vars

----------------------------------------------------------------------------
(* The scheduler on every plan: add_plan_step accepts any dependency list *)

SchedPlans ==
    UNION {
      {p \in [1..n -> [id : 1..n, description : {"step"},
                       action_type : {"write"},
                       dependencies : SeqsUpTo(0..n, MaxDeps),
                       status : {"pending"}]] :
          \A i \in 1..n : p[i].id = i}
      : n \in 0..SchedMaxSteps}

SchedInit ==
    /\ \E p \in SchedPlans : state = [AgentState EXCEPT !.plan_steps = p]
    /\ pc = "sched"
    /\ entry = "none"
    /\ current_stream_queue = 0
    /\ stream_queue = <<>>
    /\ active_tasks = {}
    /\ dev = NoDev
    /\ dev_iters = 0
    /\ cancels = 0
    /\ sched_ret = <<>>
    /\ triage_response = NoResponse
    /\ responses = <<>>
    /\ task_records = [id \in TaskIds |-> AgentState]
    /\ wf_pc = [id \in TaskIds |-> [at |-> "idle", n |-> 0]]
    /\ queues = [id \in TaskIds |-> <<>>]

\* a caller that asks for the next step and does not execute it
\* (get_progress_summary does so twice for every snapshot)
SchedProbeMarks ==
    /\ pc = "sched"
    /\ Len(sched_ret) < MaxProbes
    /\ LET k == get_next_pending_step(state.plan_steps)
       IN  /\ sched_ret' = Append(sched_ret, k)
           /\ state' = IF k >= 1
                       THEN [state EXCEPT !.plan_steps[k].status = "in_progress"]
                       ELSE state
    /\ UNCHANGED <<pc, entry, current_stream_queue, stream_queue, active_tasks,
                   dev, dev_iters, cancels,
                   triage_response, server_vars, peer_vars>>

SchedProbe ==
    /\ pc = "sched"
    /\ Len(sched_ret) < MaxProbes
    /\ sched_ret' = Append(sched_ret, get_next_pending_step(state.plan_steps))
    /\ UNCHANGED <<state, pc, entry, current_stream_queue, stream_queue,
                   active_tasks, dev, dev_iters, cancels,
                   triage_response, server_vars, peer_vars>>

\* the returned step is executed to its end: Completed or Failed
SchedExecute ==
    /\ pc = "sched"
    /\ get_next_pending_step(state.plan_steps) >= 1
    /\ \E success \in BOOLEAN :
          state' = [state EXCEPT
                       !.plan_steps[get_next_pending_step(state.plan_steps)].status =
                           IF success THEN "completed" ELSE "failed"]
    /\ sched_ret' = <<>>
    /\ UNCHANGED <<pc, entry, current_stream_queue, stream_queue, active_tasks,
                   dev, dev_iters, cancels,
                   triage_response, server_vars, peer_vars>>

SchedNext == SchedProbe \/ SchedExecute

SchedSpec == SchedInit /\ [][SchedNext]_vars

----------------------------------------------------------------------------
(* The planner of planner.py: plan_atomic_step, called until it returns False *)

\* descriptions a generated step can carry: without a completion indicator,
\* with one ("finish"), and a JSON value that is no string
Descriptions == {"edit the code", "finish up", "<number>"}

completion_indicators == {"finish up"}

\* a planner that puts the new step in front of the plan
add_plan_step_front(st, step_data) ==
    [st EXCEPT !.plan_steps =
        <<[id |-> Len(@) + 1,
           description |-> step_data.description,
           action_type |-> step_data.action_type,
           dependencies |-> step_data.dependencies,
           status |-> "pending"]>> \o @]

\* add_plan_step with a step id that is new (a uuid4 in the code)
add_plan_step(st, step_data) ==
    [st EXCEPT !.plan_steps =
        Append(@, [id |-> Len(@) + 1,
                   description |-> step_data.description,
                   action_type |-> step_data.action_type,
                   dependencies |-> step_data.dependencies,
                   status |-> "pending"])]

\* the scan of the last steps for an indicator, from position i on:
\* "false" at the first indicator, "raise" at a description without .lower()
RECURSIVE scan_recent(_, _)
scan_recent(steps, i) ==
    IF i > Len(steps) THEN "true"
    ELSE IF steps[i].description = "<number>" THEN "raise"
    ELSE IF steps[i].description \in completion_indicators THEN "false"
    ELSE scan_recent(steps, i + 1)

_needs_more_steps(st) ==
    IF Len(st.plan_steps) >= max_plan_steps THEN "false"
    ELSE IF Len(st.plan_steps) = 0 THEN "true"
    ELSE scan_recent(st.plan_steps,
                     IF Len(st.plan_steps) >= recent_steps
                     THEN Len(st.plan_steps) - recent_steps + 1
                     ELSE 1)

\* what _generate_next_step can return: None, or the parsed JSON object with
\* its description, action_type and dependencies as the model wrote them
\* (0 is an id that no step has)
StepData(st) ==
    [description : Descriptions,
     action_type : {"write", "finish"},
     dependencies : SeqsUpTo(0..Len(st.plan_steps), MaxDeps)]

\* the result of _generate_next_step: step data, or None (some = FALSE)
NextSteps(st) ==
    {[some |-> FALSE,
      data |-> [description |-> "", action_type |-> "", dependencies |-> <<>>]]}
    \cup [some : {TRUE}, data : StepData(st)]

plan_atomic_step(st, next_step) ==
    LET more == _needs_more_steps(st)
    IN  IF more = "raise"
        THEN [record |-> log_message(log_message(st, "Node planner executed"),
                                     "Planning failed"),
              ret |-> FALSE]
        ELSE IF more = "false" \/ ~next_step.some
        THEN [record |-> [st EXCEPT !.planning_complete = TRUE], ret |-> FALSE]
        ELSE [record |-> log_message(
                             log_message(add_plan_step(st, next_step.data),
                                         "Node planner executed"),
                             "Planned atomic step"),
              ret |-> TRUE]

PlannerInit ==
    /\ state = start_task(AgentState, 1)
    /\ pc = "planning"
    /\ entry = "none"
    /\ current_stream_queue = 0
    /\ stream_queue = <<>>
    /\ active_tasks = {}
    /\ dev = NoDev
    /\ dev_iters = 0
    /\ cancels = 0
    /\ sched_ret = <<>>
    /\ triage_response = NoResponse
    /\ responses = <<>>
    /\ task_records = [id \in TaskIds |-> AgentState]
    /\ wf_pc = [id \in TaskIds |-> [at |-> "idle", n |-> 0]]
    /\ queues = [id \in TaskIds |-> <<>>]

\* one call of plan_next_step by a caller that goes on while it returns True
PlanNextStep ==
    /\ pc = "planning"
    /\ \E next_step \in {n \in NextSteps(state) :
                            n.some => Len(state.plan_steps) < PlannerMaxSteps} :
          LET r == plan_atomic_step(state, next_step)
          IN  /\ state' = r.record
              /\ pc' = IF r.ret THEN "planning" ELSE "planned"
    /\ UNCHANGED <<entry, current_stream_queue, stream_queue, active_tasks, dev,
                   dev_iters, cancels, sched_ret, triage_response, server_vars,
                   peer_vars>>

PlannerNext == PlanNextStep

PlannerSpec == PlannerInit /\ [][PlannerNext]_vars

----------------------------------------------------------------------------
(* The task registry of server.py: active_tasks under generate_stream,      *)
(* cancel_task and cleanup_task, for the task ids of TaskIds                *)

\* a retention timer that deletes the key without looking for it
cleanup_task_unguarded(tasks, task_id) ==
    [tasks |-> tasks \ {task_id},
     status |-> IF task_id \in tasks THEN "removed" ELSE "KeyError"]

\* cleanup_task after its sleep: the registry it leaves and how it ended
cleanup_task(tasks, task_id) ==
    [tasks |-> tasks \ {task_id},
     status |-> IF task_id \in tasks THEN "removed" ELSE "absent"]

RegistryInit ==
    /\ state = AgentState
    /\ pc = "serving"
    /\ entry = "none"
    /\ current_stream_queue = 0
    /\ stream_queue = <<>>
    /\ active_tasks = {}
    /\ dev = NoDev
    /\ dev_iters = 0
    /\ cancels = 0
    /\ sched_ret = <<>>
    /\ triage_response = NoResponse
    /\ responses = <<>>
    /\ task_records = [id \in TaskIds |-> AgentState]
    /\ wf_pc = [id \in TaskIds |-> [at |-> "idle", n |-> 0]]
    /\ queues = [id \in TaskIds |-> <<>>]

\* generate_stream up to its first await: a task with a new id is registered
RegisterTask(id) ==
    /\ pc = "serving"
    /\ id \notin active_tasks
    /\ task_records[id] = AgentState
    /\ active_tasks' = active_tasks \cup {id}
    /\ task_records' = [task_records EXCEPT ![id] = start_task(AgentState, id)]
    /\ UNCHANGED <<state, pc, entry, current_stream_queue, stream_queue, dev,
                   dev_iters, cancels, sched_ret, triage_response, responses,
                   peer_vars>>

\* DELETE /agent/tasks/{id}: 404 for a key that is not in the registry
CancelTask(id) ==
    /\ pc = "serving"
    /\ Len(responses) < MaxCalls
    /\ IF id \notin active_tasks
       THEN /\ responses' = Append(responses, [call |-> "cancel_task",
                                               task_id |-> id, status |-> "404"])
            /\ UNCHANGED task_records
       ELSE /\ task_records' = [task_records EXCEPT
                                   ![id] = fail_task(@, "Task cancelled by user")]
            /\ responses' = Append(responses, [call |-> "cancel_task",
                                               task_id |-> id, status |-> "200"])
    /\ UNCHANGED <<state, pc, entry, current_stream_queue, stream_queue,
                   active_tasks, dev, dev_iters, cancels, sched_ret,
                   triage_response, peer_vars>>

\* the retention timer fires for id
CleanupTask(id) ==
    /\ pc = "serving"
    /\ Len(responses) < MaxCalls
    /\ LET r == cleanup_task(active_tasks, id)
       IN  /\ active_tasks' = r.tasks
           /\ responses' = Append(responses, [call |-> "cleanup_task",
                                              task_id |-> id, status |-> r.status])
    /\ UNCHANGED <<state, pc, entry, current_stream_queue, stream_queue, dev,
                   dev_iters, cancels, sched_ret, triage_response, task_records,
                   peer_vars>>

RegistryNext ==
    \E id \in TaskIds :
       \/ RegisterTask(id)
       \/ CancelTask(id)
       \/ CleanupTask(id)

RegistrySpec == RegistryInit /\ [][RegistryNext]_vars

----------------------------------------------------------------------------
(* Two execute_workflow calls at a time on the one AgentGraph instance      *)
(* (agent_graph.py:190): each has its own record and its own stream_queue   *)
(* argument, and both use self.current_stream_queue                         *)

IsolationInit ==
    /\ state = AgentState
    /\ pc = "serving"
    /\ entry = "none"
    /\ current_stream_queue = 0
    /\ stream_queue = <<>>
    /\ active_tasks = {}
    /\ dev = NoDev
    /\ dev_iters = 0
    /\ cancels = 0
    /\ sched_ret = <<>>
    /\ triage_response = NoResponse
    /\ responses = <<>>
    /\ task_records = [id \in TaskIds |-> AgentState]
    /\ wf_pc = [id \in TaskIds |-> [at |-> "idle", n |-> 0]]
    /\ queues = [id \in TaskIds |-> <<>>]

\* lines 132-142: the record, the queue reference, the initial snapshot
WorkflowStart(t) ==
    /\ wf_pc[t].at = "idle"
    /\ task_records' = [task_records EXCEPT ![t] = start_task(AgentState, t)]
    /\ current_stream_queue' = t
    /\ queues' = [queues EXCEPT ![t] = Append(@, to_dict(task_records'[t]))]
    /\ wf_pc' = [wf_pc EXCEPT ![t].at = "node"]
    /\ UNCHANGED <<state, pc, entry, stream_queue, active_tasks, dev, dev_iters,
                   cancels, sched_ret, triage_response, responses>>

\* a node of t's graph calls _stream_state_update: the snapshot goes to the
\* queue that self.current_stream_queue names now, if any
NodeUpdate(t) ==
    /\ wf_pc[t].at = "node"
    /\ wf_pc[t].n < MaxNodes
    /\ queues' = IF current_stream_queue = 0 THEN queues
                 ELSE [queues EXCEPT ![current_stream_queue] =
                          Append(@, to_dict(task_records[t]))]
    /\ wf_pc' = [wf_pc EXCEPT ![t].at = "event"]
    /\ UNCHANGED <<state, pc, entry, current_stream_queue, stream_queue,
                   active_tasks, dev, dev_iters, cancels, sched_ret,
                   triage_response, server_vars>>

\* line 156: the node's event is put on the stream_queue argument
NodeEvent(t) ==
    /\ wf_pc[t].at = "event"
    /\ queues' = [queues EXCEPT ![t] = Append(@, to_dict(task_records[t]))]
    /\ wf_pc' = [wf_pc EXCEPT ![t] = [at |-> "node", n |-> @.n + 1]]
    /\ UNCHANGED <<state, pc, entry, current_stream_queue, stream_queue,
                   active_tasks, dev, dev_iters, cancels, sched_ret,
                   triage_response, server_vars>>

\* lines 163-171 and the finally: the last put, then the reference is cleared
WorkflowFinish(t) ==
    /\ wf_pc[t].at = "node"
    /\ wf_pc[t].n >= 1
    /\ queues' = [queues EXCEPT ![t] = Append(@, to_dict(task_records[t]))]
    /\ current_stream_queue' = 0
    /\ wf_pc' = [wf_pc EXCEPT ![t].at = "done"]
    /\ UNCHANGED <<state, pc, entry, stream_queue, active_tasks, dev, dev_iters,
                   cancels, sched_ret, triage_response, server_vars>>

IsolationNext ==
    \E t \in TaskIds :
       \/ WorkflowStart(t)
       \/ NodeUpdate(t)
       \/ NodeEvent(t)
       \/ WorkflowFinish(t)

IsolationSpec == IsolationInit /\ [][IsolationNext]_vars

----------------------------------------------------------------------------
(* The workflow under the event loop's scheduling: a coroutine that can run
   is run (LiveSpec) *)

LiveSpec == Spec /\ WF_vars(Next)

----------------------------------------------------------------------------
(* The queue as a bounded channel: execute_workflow is handed an
   asyncio.Queue(maxsize = QueueMaxSize) and its caller reads from it
   (ChannelSpec). `await queue.put(x)` returns once the queue has a free
   slot; queues[t] is what the queue holds now. *)

QueueMaxSize == 2

\* `await q.put(...)` can return: the queue has a free slot
put_ready(q) == Len(q) < QueueMaxSize

BoundedStart(t) == put_ready(queues[t]) /\ WorkflowStart(t)

BoundedUpdate(t) ==
    /\ current_stream_queue # 0 => put_ready(queues[current_stream_queue])
    /\ NodeUpdate(t)

BoundedEvent(t) == put_ready(queues[t]) /\ NodeEvent(t)

BoundedFinish(t) == put_ready(queues[t]) /\ WorkflowFinish(t)

\* a step of task t's execute_workflow
TaskStep(t) ==
    BoundedStart(t) \/ BoundedUpdate(t) \/ BoundedEvent(t) \/ BoundedFinish(t)

\* the reader of task t's queue takes the oldest snapshot
ConsumerGet(t) ==
    /\ queues[t] # <<>>
    /\ queues' = [queues EXCEPT ![t] = Tail(@)]
    /\ UNCHANGED <<state, pc, entry, current_stream_queue, stream_queue,
                   active_tasks, dev, dev_iters, cancels, sched_ret,
                   triage_response, server_vars, wf_pc>>

ChannelNext ==
    \E t \in TaskIds :
       \/ BoundedStart(t)
       \/ BoundedUpdate(t)
       \/ BoundedEvent(t)
       \/ BoundedFinish(t)
       \/ ConsumerGet(t)

ChannelSpec == IsolationInit /\ [][ChannelNext]_vars

----------------------------------------------------------------------------
(* Properties *)

Terminal(st) == st.task_complete \/ st.task_failed

\* the scheduler's contract, stated on the plan alone: the first step in
\* insertion order that is Pending with every dependency id resolving to a
\* Completed step; 0 when there is none
Eligible(steps, i) ==
    /\ steps[i].status = "pending"
    /\ \A d \in 1..Len(steps[i].dependencies) :
          \E j \in 1..Len(steps) :
             /\ steps[j].id = steps[i].dependencies[d]
             /\ steps[j].status = "completed"

FirstEligible(steps) ==
    LET E == {i \in 1..Len(steps) : Eligible(steps, i)}
    IN  IF E = {} THEN 0 ELSE Min(E)

\* C1: every step the scheduler returns is Pending and each id in its
\* dependencies belongs to a Completed step; a step that depends on a Failed
\* step is never returned.
C1_SelectedStepIsRunnable ==
    \A n \in 1..Len(sched_ret) :
       sched_ret[n] >= 1 => Eligible(state.plan_steps, sched_ret[n])

C1_Witness ==
    \E n \in 1..Len(sched_ret) :
       /\ sched_ret[n] >= 1
       /\ state.plan_steps[sched_ret[n]].dependencies # <<>>
       /\ \E j \in 1..Len(state.plan_steps) : state.plan_steps[j].status = "completed"

\* C2: the scheduler returns the first eligible step in insertion order,
\* returns None exactly when no step is eligible, and never raises.
C2_FirstEligibleNeverRaises ==
    \A n \in 1..Len(sched_ret) :
       sched_ret[n] = FirstEligible(state.plan_steps)

\* C3: a call of the scheduler that is not followed by the execution of the
\* returned step leaves the whole Task Record unchanged and returns what the
\* previous call returned.
C3_SchedulerCallIsIdempotent ==
    [][(sched_ret' # sched_ret /\ sched_ret' # <<>>) =>
          /\ state' = state
          /\ sched_ret # <<>> =>
                sched_ret'[Len(sched_ret')] = sched_ret[Len(sched_ret)]]_vars

C3_Witness ==
    /\ Len(sched_ret) >= 2
    /\ sched_ret[1] >= 1
    /\ sched_ret[2] = sched_ret[1]

\* C4: loop_count never decreases and the developer node is entered at most
\* max_loops times for a task.
C4_LoopCountBoundsExecuteLoop ==
    [][/\ state'.loop_count >= state.loop_count
       /\ dev_iters' <= state.max_loops]_vars

\* C5: once max_loops Execute iterations have been made, the task is failed
\* (and so a further iteration never starts).
C5_CeilingFailsTask ==
    (dev_iters >= state.max_loops /\ pc \in {"developer", "finalize"})
        => state.task_failed

\* C6: task_complete and task_failed are never both true, on the Task Record
\* and on every published snapshot, under any interleaving with cancel_task.
C6_FlagsMutuallyExclusive ==
    /\ ~(state.task_complete /\ state.task_failed)
    /\ \A n \in 1..Len(stream_queue) :
          ~(stream_queue[n].task_complete /\ stream_queue[n].task_failed)

C6_Witness ==
    /\ cancels >= 1
    /\ state.task_failed
    /\ pc = "done"
    /\ \E k \in 1..Len(state.plan_steps) : state.plan_steps[k].status = "completed"

\* C7: once task_complete or task_failed is true, plan_steps and
\* working_memory never change again.
C7_TerminalRecordIsFrozen ==
    [][Terminal(state) =>
          /\ state'.plan_steps = state.plan_steps
          /\ state'.working_memory = state.working_memory]_vars

\* C8: a terminal flag, once true, stays true, and no Triage, Plan or Execute
\* node is entered afterwards.
C8_TerminalIsStable ==
    [][Terminal(state) =>
          /\ Terminal(state')
          /\ ~(pc = "triage" /\ pc' = "triage_llm")
          /\ ~(pc = "planner" /\ pc' = "plan_task")
          /\ dev_iters' = dev_iters]_vars

\* C9: the last snapshot execute_workflow puts on the queue has
\* task_complete with final_code and final_explanation populated, or
\* task_failed with a non-empty failure_reason.
C9_FinalSnapshotIsTerminal ==
    (entry = "workflow" /\ pc = "done") =>
        LET s == stream_queue[Len(stream_queue)]
        IN  \/ /\ s.task_complete
               /\ s.final_code # NoValue
               /\ s.final_explanation # NoValue
            \/ /\ s.task_failed
               /\ s.failure_reason # ""

\* lifecycle rank of a step status
StatusRank(status) ==
    IF status = "pending" THEN 0 ELSE IF status = "in_progress" THEN 1 ELSE 2

\* snapshot a describes an earlier state of the record than snapshot b
DescribesEarlier(a, b) ==
    \/ Len(a.execution_log) < Len(b.execution_log)
    \/ \E k \in (DOMAIN a.plan_steps) \cap (DOMAIN b.plan_steps) :
          StatusRank(a.plan_steps[k].status) < StatusRank(b.plan_steps[k].status)

\* C10: of two snapshots on the queue, the later one never describes an
\* earlier state of the Task Record than the one before it.
C10_SnapshotsInRecordOrder ==
    \A i, j \in 1..Len(stream_queue) :
       i < j => ~DescribesEarlier(stream_queue[j], stream_queue[i])

TerminalSnapshot(s) == s.task_complete \/ s.task_failed

\* C11: the snapshot of the task's terminal state is the last item on the
\* progress queue: once a snapshot with a terminal flag is on the queue,
\* nothing further is put on it.
C11_TerminalSnapshotIsLast ==
    [][(\E n \in 1..Len(stream_queue) : TerminalSnapshot(stream_queue[n]))
          => stream_queue' = stream_queue]_vars

\* C12: after Triage the workflow goes to SimpleInquiry exactly when the
\* stored route is simple_inquiry and to Plan for every other route; with
\* no assessment stored the edge goes to Plan.
C12_RouteAfterTriage ==
    /\ route_after_triage(AgentState) = "planner"
    /\ [][(pc = "triage_llm" /\ pc' \notin {"triage_llm", "done"}) =>
             pc' = IF state'.working_memory.triage_assessment.route = "simple_inquiry"
                   THEN "simple_inquiry"
                   ELSE "planner"]_vars

C12_Witness ==
    /\ pc = "planner"
    /\ state.working_memory.triage_assessment.set
    /\ state.working_memory.triage_assessment.route = "banana"

\* the answer cannot be parsed: the call raised, the ROUTE field is missing
\* or names no route, or the COMPLEXITY field is missing or no integer
Unparsable(r) ==
    \/ r.raises
    \/ r.route_field \notin Routes
    \/ int(r.complexity_field) = -1

\* C13: when the classification call raises or its answer cannot be parsed,
\* the assessment is complex_modification with complexity 8, the task is
\* not failed and the workflow goes on to planning.
C13_UnparsableDefaultsToComplex ==
    (pc \notin {"idle", "triage", "triage_llm"} /\ Unparsable(triage_response)) =>
        /\ state.working_memory.triage_assessment =
              [set |-> TRUE, route |-> "complex_modification", complexity |-> 8]
        /\ ~state.task_failed
        /\ pc = "planner"

\* C14: the route of every assessment is one of the five enumerated routes,
\* whatever the classifier answered.
C14_RouteIsEnumerated ==
    state.working_memory.triage_assessment.set =>
        state.working_memory.triage_assessment.route \in Routes

\* C15: at most one step of the plan is InProgress at any time.
C15_OneStepInProgress ==
    Cardinality({k \in 1..Len(state.plan_steps) :
                    state.plan_steps[k].status = "in_progress"}) <= 1

C15_Witness ==
    \E j, k \in 1..Len(state.plan_steps) :
       /\ state.plan_steps[j].status = "completed"
       /\ state.plan_steps[k].status = "in_progress"

\* C16: a step's status only moves Pending -> InProgress -> Completed or
\* Failed: no step returns to Pending and none is started twice.
C16_StatusMovesForward ==
    [][\A k \in (DOMAIN state.plan_steps) \cap (DOMAIN state'.plan_steps) :
          LET a == state.plan_steps[k].status
              b == state'.plan_steps[k].status
          IN  \/ a = b
              \/ a = "pending" /\ b = "in_progress"
              \/ a = "in_progress" /\ b \in {"completed", "failed"}]_vars

C16_Witness ==
    \E j, k \in 1..Len(state.plan_steps) :
       /\ state.plan_steps[j].status = "completed"
       /\ state.plan_steps[k].status = "failed"

\* C17: when an executed action reports failure and its step becomes
\* Failed, the task is marked task_failed (and so no further step runs).
C17_FailedStepFailsTask ==
    (\E k \in 1..Len(state.plan_steps) : state.plan_steps[k].status = "failed")
        => state.task_failed

\* C18: a step whose parsed action is not a recognized action does not
\* become Completed, and the task is failed when the executor returns.
C18_UnknownActionFailsStep ==
    (/\ pc \notin {"dev_llm", "dev_tool"}
     /\ dev.next_step >= 1
     /\ dev.action \notin RecognizedActions \cup {""}) =>
        /\ state.plan_steps[dev.next_step].status # "completed"
        /\ state.task_failed

\* C19: when the scheduler has returned no step while Pending steps remain,
\* the task is failed with a failure reason.
C19_StalledPlanFailsTask ==
    (/\ state.execution_log # <<>>
     /\ state.execution_log[Len(state.execution_log)] = "No more pending steps."
     /\ \E k \in 1..Len(state.plan_steps) : state.plan_steps[k].status = "pending") =>
        /\ state.task_failed
        /\ state.failure_reason # ""

\* C20: when every step of a plan that ends in a finish step is Completed
\* and the scheduler has reported the plan exhausted, the machine has left
\* the Execute loop with task_complete set and final_code and
\* final_explanation filled in.
C20_CompletedPlanReachesDone ==
    (/\ state.plan_steps # <<>>
     /\ \A k \in 1..Len(state.plan_steps) : state.plan_steps[k].status = "completed"
     /\ state.plan_steps[Len(state.plan_steps)].action_type = "finish"
     /\ state.execution_log[Len(state.execution_log)] = "No more pending steps.") =>
        /\ pc \in {"finalize", "done"}
        /\ state.task_complete
        /\ state.final_code # NoValue
        /\ state.final_explanation # NoValue

\* C21: on the simple_inquiry route the machine reaches the end without
\* entering Plan or Execute, with task_complete set and final_explanation
\* holding the answer.
C21_SimpleInquiryCompletesTask ==
    (/\ pc \in {"finalize", "done"}
     /\ state.working_memory.triage_assessment.route = "simple_inquiry"
     /\ state.execution_log[Len(state.execution_log)] = "Simple inquiry answered.") =>
        /\ state.plan_steps = <<>>
        /\ dev_iters = 0
        /\ state.task_complete
        /\ state.final_explanation # NoValue

\* C26: once a task has been cancelled, no step is started and no action
\* of a step in flight is applied (no new code, no working-memory update).
C26_CancelStopsTheTask ==
    [][cancels >= 1 =>
          /\ \A k \in DOMAIN state'.plan_steps :
                state'.plan_steps[k].status = "in_progress" =>
                   /\ k \in DOMAIN state.plan_steps
                   /\ state.plan_steps[k].status = "in_progress"
          /\ state'.current_code = state.current_code
          /\ state'.working_memory.search_results =
                state.working_memory.search_results]_vars

\* a node of the graph is entered or left
NodeEntryOrExit ==
    \/ /\ pc \in {"triage", "simple_inquiry", "planner"}
       /\ pc' \in {"triage_llm", "inquiry_llm", "plan_task"}
    \/ /\ pc = "developer"
       /\ dev_iters' = dev_iters + 1
    \/ /\ pc \in {"triage_llm", "inquiry_llm", "plan_task", "dev_llm", "dev_tool"}
       /\ pc' \in {"simple_inquiry", "planner", "developer", "finalize"}

\* C30: every node entry and exit puts a snapshot on the task's queue, and
\* the task is in the registry at that moment.
C30_TransitionsPublishInLockstep ==
    [][NodeEntryOrExit =>
          /\ Len(stream_queue') > Len(stream_queue)
          /\ 1 \in active_tasks']_vars

\* a plan that passes structural validation: it ends in a finish step and
\* every dependency names a step of the plan
StructurallyValid(steps) ==
    /\ steps # <<>>
    /\ steps[Len(steps)].action_type = "finish"
    /\ \A i \in 1..Len(steps) :
          \A d \in 1..Len(steps[i].dependencies) :
             \E j \in 1..Len(steps) : steps[j].id = steps[i].dependencies[d]

\* C22: when plan generation fails (the planner raises, or ends without a
\* plan), the task is marked task_failed with a reason.
C22_PlanFailureFailsTask ==
    (/\ pc = "planned"
     /\ \/ state.execution_log[Len(state.execution_log)] = "Planning failed"
        \/ state.plan_steps = <<>>) =>
        /\ state.task_failed
        /\ state.failure_reason # ""

\* C23: a plan that fails structural validation (last step not a finish
\* step, or an unresolved dependency) is rejected: when planning has ended
\* with such a plan, the task is failed.
C23_InvalidPlanIsRejected ==
    (/\ pc = "planned"
     /\ state.plan_steps # <<>>
     /\ ~StructurallyValid(state.plan_steps)) =>
        state.task_failed

\* C24: every dependency id of every step names a step at an earlier
\* position of plan_steps.
C24_DependenciesPointBackwards ==
    \A i \in 1..Len(state.plan_steps) :
       \A d \in 1..Len(state.plan_steps[i].dependencies) :
          \E j \in 1..(i - 1) :
             state.plan_steps[j].id = state.plan_steps[i].dependencies[d]

step_ids(steps) == [i \in 1..Len(steps) |-> steps[i].id]

IsPrefix(a, b) == Len(a) <= Len(b) /\ a = SubSeq(b, 1, Len(a))

\* C25: plan_steps is append-only: in every transition the sequence of step
\* ids before it is a prefix of the sequence after it.
C25_PlanIsAppendOnly ==
    [][IsPrefix(step_ids(state.plan_steps), step_ids(state'.plan_steps))]_vars

C25_Witness ==
    /\ pc = "planned"
    /\ Len(state.plan_steps) >= 2

\* C27: cancel_task is idempotent: a later call for a task id gives the
\* outcome of the first call, also when the id is no longer registered.
C27_CancelIsIdempotent ==
    \A m, n \in 1..Len(responses) :
       (/\ m < n
        /\ responses[m].call = "cancel_task"
        /\ responses[n].call = "cancel_task"
        /\ responses[m].task_id = responses[n].task_id
        /\ responses[m].status = "200") =>
           responses[n].status = "200"

\* C28: cleanup_task for a task id that is absent, or a second time for the
\* same id, raises nothing and leaves every other registry entry as it was.
C28_CleanupToleratesAbsence ==
    [][(/\ Len(responses') = Len(responses) + 1
        /\ responses'[Len(responses')].call = "cleanup_task") =>
          LET r == responses'[Len(responses')]
          IN  /\ r.status \in {"removed", "absent"}
              /\ active_tasks' = active_tasks \ {r.task_id}
              /\ task_records' = task_records]_vars

C28_Witness ==
    /\ \E m, n \in 1..Len(responses) :
          /\ m < n
          /\ responses[m].call = "cleanup_task"
          /\ responses[m].status = "removed"
          /\ responses[n].call = "cleanup_task"
          /\ responses[n].task_id = responses[m].task_id
          /\ responses[n].status = "absent"
    /\ active_tasks # {}

\* C29: with two tasks running at a time, every snapshot on a task's queue
\* is a snapshot of that task, and while a task is running the queue
\* reference its nodes publish through is set.
C29_TasksAreIsolated ==
    /\ \A t \in TaskIds :
          \A n \in 1..Len(queues[t]) : queues[t][n].task_id = t
    /\ (\E t \in TaskIds : wf_pc[t].at \in {"node", "event"}) =>
          current_stream_queue # 0

\* C31: every snapshot put on the task's queue, the last one of the error
\* path included, carries the task_id of the initial snapshot.
C31_TaskIdIsImmutable ==
    \A n \in 1..Len(stream_queue) :
       stream_queue[n].task_id = stream_queue[1].task_id

\* the fields of snapshot s that the record st determines
Carries(s, st) ==
    /\ Len(s.plan_steps) = Len(st.plan_steps)
    /\ \A i \in 1..Len(st.plan_steps) :
          /\ s.plan_steps[i].id = st.plan_steps[i].id
          /\ s.plan_steps[i].status = st.plan_steps[i].status
    /\ s.task_complete = st.task_complete
    /\ s.task_failed = st.task_failed
    /\ s.final_code = st.final_code

\* C32: a snapshot carries, for every plan step in order, the status the
\* step has when the record is serialised, and the record's task_complete,
\* task_failed and final_code: the snapshot of the record as it stands
\* does, and so does every snapshot put on the queue, for the record a node
\* serialised it from (or the error record of the workflow).
C32_SnapshotCarriesTheRecord ==
    /\ [](Carries(to_dict(state), state))
    /\ [][\A n \in (Len(stream_queue) + 1)..Len(stream_queue') :
             \/ Carries(stream_queue'[n], state)
             \/ Carries(stream_queue'[n], state')
             \/ Carries(stream_queue'[n], error_state)]_vars

C32_Witness ==
    \E n \in 1..Len(stream_queue) :
       /\ stream_queue[n].task_failed
       /\ \E i, j \in 1..Len(stream_queue[n].plan_steps) :
             /\ stream_queue[n].plan_steps[i].status = "completed"
             /\ stream_queue[n].plan_steps[j].status = "failed"
       /\ Carries(stream_queue[n], state)

\* execute_atomic_step has returned from a call that took step dev.next_step
Returned == pc \in {"developer", "finalize"} /\ dev.next_step >= 1

\* C33: the model is called at most max_retries times for a step, and when
\* no call gave a response with both markers the step is Failed and the
\* task is marked failed.
C33_RetriesThenFails ==
    /\ dev.i < max_retries
    /\ (Returned /\ dev.response_text # "valid") =>
          /\ state.plan_steps[dev.next_step].status = "failed"
          /\ state.task_failed

\* C34: a task is marked failed only with a failure_reason that is not
\* empty and with the failure in its log.
C34_FailureIsRecordedFirst ==
    state.task_failed =>
       /\ state.failure_reason # ""
       /\ \E n \in 1..Len(state.execution_log) :
             state.execution_log[n] \in {"Task failed", "Step execution failed",
                                         "Critical error"}

\* C35: when the task has ended, no step is still Pending behind a
\* dependency that is Failed or Skipped: such a step is Skipped.
C35_BlockedStepsAreSkipped ==
    pc = "done" =>
       \A k \in 1..Len(state.plan_steps) :
          state.plan_steps[k].status = "pending" =>
             \A d \in 1..Len(state.plan_steps[k].dependencies) :
                LET j == get_step_by_id(state.plan_steps,
                                        state.plan_steps[k].dependencies[d])
                IN  j >= 1 =>
                       state.plan_steps[j].status \notin {"failed", "skipped"}

\* C36: after Triage the record's route and complexity are the classified
\* values, the ones the branch was decided on.
C36_RouteIsRecorded ==
    state.working_memory.triage_assessment.set =>
       /\ state.route = state.working_memory.triage_assessment.route
       /\ state.complexity = state.working_memory.triage_assessment.complexity

\* C39: a step that execute_atomic_step returned as Completed was run on a
\* response that had both the ACTION: and the CODE: marker.
C39_CompletedNeedsMarkers ==
    (Returned /\ state.plan_steps[dev.next_step].status = "completed") =>
       dev.response_text = "valid"

\* C40: when execute_atomic_step has returned no step is InProgress, the
\* step it took is Completed or Failed, and a call that found no step to
\* run changed no status.
C40_NoStepLeftInProgress ==
    /\ [](pc \in {"developer", "finalize"} =>
             /\ \A k \in 1..Len(state.plan_steps) :
                   state.plan_steps[k].status # "in_progress"
             /\ dev.next_step >= 1 =>
                   state.plan_steps[dev.next_step].status
                      \in {"completed", "failed"})
    /\ [][(pc = "developer" /\ dev_iters' = dev_iters + 1 /\ dev' = NoDev) =>
             state'.plan_steps = state.plan_steps]_vars

C40_Witness ==
    /\ pc = "finalize"
    /\ dev.next_step >= 1
    /\ dev.response_text = ""
    /\ state.plan_steps[dev.next_step].status = "failed"
    /\ state.task_failed

\* C37: a task id that was put in active_tasks is eventually removed from it.
C37_RegisteredIsRemoved == (1 \in active_tasks) ~> (1 \notin active_tasks)

\* C38: a publish never blocks the task: whatever the queue holds, a task
\* that has not finished can take its next step without the reader.
C38_PublishNeverBlocks ==
    \A t \in TaskIds : wf_pc[t].at # "done" => ENABLED TaskStep(t)

====
